---- MODULE Spec2Model ----
(***************************************************************************)
(* State-machine model of vs/platform/list/browser/listService.ts:         *)
(* the ListService focus registry, the modifier-policy functions, the      *)
(* selection/open controllers and the workbench widget wrappers.           *)
(***************************************************************************)
EXTENDS Integers, Sequences, FiniteSets, TLC

\* ------------------------------------------------------------------ bounds
\* number of distinct widget objects that callers hand to the registry
NumWidgets == 2
\* total number of successful register() calls in one behaviour
MaxRegs == 3
\* number of wrapper / controller objects constructed in one behaviour
NumWrappers == 2
\* largest selection size a widget reports
MaxSel == 2
\* largest mouse click count (UIEvent.detail) drawn as input
MaxDetail == 2
\* number of tree elements that can be focused or selected
NumElems == 2

Widgets == 1..NumWidgets
Wrappers == 1..NumWrappers

\* `undefined`, the initial value of _lastFocusedWidget
None == 0

VARIABLES
    \* ---- ListService
    regs,               \* every IRegisteredList object created so far: regs[id] = its widget
    lists,              \* ListService.lists, as the sequence of IRegisteredList identities
    focusSubs,          \* ids whose widget.onDidFocus listener is still subscribed
    lastFocusedWidget,  \* ListService._lastFocusedWidget
    invoked,            \* ids whose disposal handle has been invoked at least once
    ev,                 \* the last registry operation and what it observed
    \* ---- configuration service
    config,             \* stored values of the two settings
    \* ---- wrappers (WorkbenchList / WorkbenchPagedList / WorkbenchTree / WorkbenchTreeController)
    kind,               \* kind[x]: which class object x is, "none" before construction
    disposables,        \* this.disposables of x, as the set of resources it holds
    regId,              \* the IRegisteredList identity behind x's register() handle
    cfgSubs,            \* objects whose onDidChangeConfiguration listener is subscribed
    selSubs,            \* objects whose selection-change listener is subscribed
    altCache,           \* _useAltAsMultipleSelectionModifier
    openCache,          \* WorkbenchTree._openOnSingleClick
    dblSel,             \* the listDoubleSelection context key
    ctlMode,            \* the tree controller's options.openMode
    supplied,           \* the options.openMode the controller's caller passed
    disposed,           \* dispose() ran on x at least once
    wev,                \* the last wrapper operation and what it observed
    \* ---- controllers as pure functions
    inp,                \* the event handed to a controller method
    out,                \* what the controller method returned
    \* ---- ResourceResultsNavigation and its tree
    nav,                \* the tree's focus, selection and policy, the navigation's options,
                        \* the last tree event and what its handler did
    \* ---- the options object of a wrapper constructor
    opts                \* the options the caller supplied and the options handed to super()

regVars == <<regs, lists, focusSubs, lastFocusedWidget>>
regAll == <<regs, lists, focusSubs, lastFocusedWidget, invoked, ev>>
wrapVars == <<kind, disposables, regId, cfgSubs, selSubs, altCache, openCache,
              dblSel, ctlMode, supplied, disposed>>
vars == <<regs, lists, focusSubs, lastFocusedWidget, invoked, ev, config, kind, disposables,
          regId, cfgSubs, selSubs, altCache, openCache, dblSel, ctlMode,
          supplied, disposed, wev, inp, out, nav, opts>>

\* ------------------------------------------------------------ ListService

\* this.lists.some(l => l.widget === widget)
IsListed(ls, rg, widget) == \E i \in 1..Len(ls) : rg[ls[i]] = widget

\* Array.prototype.indexOf: the 0-based index of the first match, -1 when absent
IndexOf(ls, id) ==
    IF \E i \in 1..Len(ls) : ls[i] = id
    THEN (CHOOSE i \in 1..Len(ls) : ls[i] = id /\ \A j \in 1..(i-1) : ls[j] # id) - 1
    ELSE -1

\* Array.prototype.splice(start, 1): a negative start counts from the end
Splice1(ls, start) ==
    LET len == Len(ls)
        from == IF start < 0
                THEN (IF len + start < 0 THEN 0 ELSE len + start)
                ELSE (IF start > len THEN len ELSE start)
    IN  IF from >= len THEN ls
        ELSE SubSeq(ls, 1, from) \o SubSeq(ls, from + 2, len)

\* register() that skips the isDOMFocused() check
RegisterResult_IgnoresFocus(ls, rg, subs, last, widget, focused) ==
    LET id == Len(rg) + 1
    IN  [regs  |-> Append(rg, widget),
         lists |-> Append(ls, id),
         subs  |-> subs \cup {id},
         last  |-> last]

\* the registry state after a successful register(widget), as a record
RegisterResult(ls, rg, subs, last, widget, focused) ==
    LET id == Len(rg) + 1
    IN  [regs  |-> Append(rg, widget),
         lists |-> Append(ls, id),
         subs  |-> subs \cup {id},
         last  |-> IF focused THEN widget ELSE last]

\* a handle that also clears _lastFocusedWidget when it references its widget
HandleResult_ClearsLast(ls, rg, subs, last, id) ==
    [lists |-> Splice1(ls, IndexOf(ls, id)),
     subs  |-> subs \ {id},
     last  |-> IF last = rg[id] THEN None ELSE last]

\* the registry state after invoking the handle that register() returned for id
HandleResult(ls, rg, subs, last, id) ==
    [lists |-> Splice1(ls, IndexOf(ls, id)),
     subs  |-> subs \ {id},
     last  |-> last]

\* a focus listener that only fills an empty _lastFocusedWidget
FocusResult_OnlyIfUnset(rg, subs, last, widget) ==
    IF (\E id \in subs : rg[id] = widget) /\ last = None THEN widget ELSE last

\* the value of _lastFocusedWidget after widget fired onDidFocus
FocusResult(rg, subs, last, widget) ==
    IF \E id \in subs : rg[id] = widget THEN widget ELSE last

\* widget has a registration whose handle was never invoked
HasLiveRegistration(widget) == \E id \in 1..Len(regs) : regs[id] = widget /\ id \notin invoked

NoEv == [op |-> "init", w |-> None, id |-> 0, focused |-> FALSE, threw |-> FALSE,
         listed |-> FALSE, live |-> FALSE, prevLast |-> None, prevLists |-> <<>>]

\* register() that runs the isDOMFocused() check ahead of the duplicate check
Register_FocusBeforeCheck(widget, focused) ==
    /\ IF IsListed(lists, regs, widget)
       THEN /\ UNCHANGED <<regs, lists, focusSubs>>
            /\ lastFocusedWidget' = IF focused THEN widget ELSE lastFocusedWidget
            /\ ev' = [NoEv EXCEPT !.op = "register", !.w = widget, !.focused = focused,
                                  !.threw = TRUE, !.listed = TRUE,
                                  !.live = HasLiveRegistration(widget),
                                  !.prevLast = lastFocusedWidget, !.prevLists = lists]
       ELSE /\ Len(regs) < MaxRegs
            /\ LET r == RegisterResult(lists, regs, focusSubs, lastFocusedWidget, widget, focused)
               IN  /\ regs' = r.regs
                   /\ lists' = r.lists
                   /\ focusSubs' = r.subs
                   /\ lastFocusedWidget' = r.last
            /\ ev' = [NoEv EXCEPT !.op = "register", !.w = widget, !.focused = focused,
                                  !.id = Len(regs) + 1,
                                  !.live = HasLiveRegistration(widget),
                                  !.prevLast = lastFocusedWidget, !.prevLists = lists]
    /\ invoked' = invoked
    /\ UNCHANGED <<config, wrapVars, wev, inp, out, nav, opts>>

\* ListService.register(widget), called while widget.isDOMFocused() = focused
Register(widget, focused) ==
    /\ IF IsListed(lists, regs, widget)
       THEN /\ UNCHANGED regVars
            /\ ev' = [NoEv EXCEPT !.op = "register", !.w = widget, !.focused = focused,
                                  !.threw = TRUE, !.listed = TRUE,
                                  !.live = HasLiveRegistration(widget),
                                  !.prevLast = lastFocusedWidget, !.prevLists = lists]
       ELSE /\ Len(regs) < MaxRegs
            /\ LET r == RegisterResult(lists, regs, focusSubs, lastFocusedWidget, widget, focused)
               IN  /\ regs' = r.regs
                   /\ lists' = r.lists
                   /\ focusSubs' = r.subs
                   /\ lastFocusedWidget' = r.last
            /\ ev' = [NoEv EXCEPT !.op = "register", !.w = widget, !.focused = focused,
                                  !.id = Len(regs) + 1,
                                  !.live = HasLiveRegistration(widget),
                                  !.prevLast = lastFocusedWidget, !.prevLists = lists]
    /\ invoked' = invoked
    /\ UNCHANGED <<config, wrapVars, wev, inp, out, nav, opts>>

\* invoking the IDisposable that register() returned for registration id
DisposeHandle(id) ==
    /\ id \in 1..Len(regs)
    /\ LET r == HandleResult(lists, regs, focusSubs, lastFocusedWidget, id)
       IN  /\ lists' = r.lists
           /\ focusSubs' = r.subs
           /\ lastFocusedWidget' = r.last
    /\ regs' = regs
    /\ invoked' = invoked \cup {id}
    /\ ev' = [NoEv EXCEPT !.op = "dispose", !.w = regs[id], !.id = id,
                          !.listed = IsListed(lists, regs, regs[id]),
                          !.prevLast = lastFocusedWidget, !.prevLists = lists]
    /\ UNCHANGED <<config, wrapVars, wev, inp, out, nav, opts>>

\* widget gains DOM focus and fires onDidFocus
FocusGained(widget) ==
    /\ lastFocusedWidget' = FocusResult(regs, focusSubs, lastFocusedWidget, widget)
    /\ UNCHANGED <<regs, lists, focusSubs, invoked>>
    /\ ev' = [NoEv EXCEPT !.op = "focus", !.w = widget,
                          !.listed = IsListed(lists, regs, widget),
                          !.prevLast = lastFocusedWidget, !.prevLists = lists]
    /\ UNCHANGED <<config, wrapVars, wev, inp, out, nav, opts>>

NoWev == [op |-> "init", x |-> 0, affected |-> {}, n |-> 0]
\* ------------------------------------------------------- modifier policy

OpenModeValues == {"singleClick", "doubleClick", "other"}
MultiSelectValues == {"ctrlCmd", "alt"}
Configs == [openMode : OpenModeValues, multiSelectModifier : MultiSelectValues]
SettingKeys == {"workbench.list.openMode", "workbench.list.multiSelectModifier"}

\* useAltAsMultipleSelectionModifier(configurationService)
useAltAsMultipleSelectionModifier(cfg) == cfg.multiSelectModifier = "alt"

\* useSingleClickToOpen(configurationService)
useSingleClickToOpen(cfg) == cfg.openMode # "doubleClick"

\* WorkbenchTreeController.getOpenModeSetting()
getOpenModeSetting(cfg) ==
    IF useSingleClickToOpen(cfg) THEN "SINGLE_CLICK" ELSE "DOUBLE_CLICK"

\* ------------------------------------------------------------- wrappers

WidgetKinds == {"List", "PagedList", "Tree"}
Live(x) == kind[x] # "none" /\ ~disposed[x]

\* the widget part of a wrapper constructor: register(this) and the
\* resources pushed on this.disposables; objects are numbered in the order
\* of their construction
ConstructWidget(x, k, focused, resources) ==
    /\ kind[x] = "none"
    /\ \A y \in 1..(x-1) : kind[y] # "none"
    /\ ~IsListed(lists, regs, x)
    /\ Len(regs) < MaxRegs
    /\ LET r == RegisterResult(lists, regs, focusSubs, lastFocusedWidget, x, focused)
       IN  /\ regs' = r.regs
           /\ lists' = r.lists
           /\ focusSubs' = r.subs
           /\ lastFocusedWidget' = r.last
    /\ regId' = [regId EXCEPT ![x] = Len(regs) + 1]
    /\ kind' = [kind EXCEPT ![x] = k]
    /\ disposables' = [disposables EXCEPT ![x] = resources]
    /\ cfgSubs' = cfgSubs \cup {x}
    /\ selSubs' = IF "onSelectionChange" \in resources THEN selSubs \cup {x} ELSE selSubs
    /\ altCache' = [altCache EXCEPT ![x] = useAltAsMultipleSelectionModifier(config)]
    /\ wev' = [NoWev EXCEPT !.op = "construct", !.x = x]
    /\ UNCHANGED <<invoked, ev, config, dblSel, ctlMode, supplied,
                   disposed, inp, out, nav, opts>>

\* new WorkbenchList(...)
ConstructList(x, focused) ==
    /\ ConstructWidget(x, "List", focused,
          {"contextKeyService", "register", "styler", "onSelectionChange", "onDidChangeConfiguration"})
    /\ UNCHANGED openCache

\* new WorkbenchPagedList(...)
ConstructPagedList(x, focused) ==
    /\ ConstructWidget(x, "PagedList", focused,
          {"contextKeyService", "register", "styler", "onDidChangeConfiguration"})
    /\ UNCHANGED openCache

\* new WorkbenchTree(...)
ConstructTree(x, focused) ==
    /\ ConstructWidget(x, "Tree", focused,
          {"contextKeyService", "register", "styler", "onSelectionChange", "onDidChangeConfiguration"})
    /\ openCache' = [openCache EXCEPT ![x] = useSingleClickToOpen(config)]

\* the controller constructor registers its listener for every options object
ControllerSetup_AlwaysListens(optMode, cfg) ==
    [mode |-> getOpenModeSetting(cfg), listens |-> TRUE]

\* what the controller constructor does with options.openMode:
\* isUndefinedOrNull(options.openMode) => setOpenMode(getOpenModeSetting()), registerListeners()
ControllerSetup(optMode, cfg) ==
    IF optMode = "undefined"
    THEN [mode |-> getOpenModeSetting(cfg), listens |-> TRUE]
    ELSE [mode |-> optMode, listens |-> FALSE]

\* new WorkbenchTreeController(options)
ConstructTreeController(x, optMode) ==
    /\ kind[x] = "none"
    /\ \A y \in 1..(x-1) : kind[y] # "none"
    /\ kind' = [kind EXCEPT ![x] = "TreeController"]
    /\ supplied' = [supplied EXCEPT ![x] = optMode]
    /\ LET c == ControllerSetup(optMode, config)
       IN  /\ ctlMode' = [ctlMode EXCEPT ![x] = c.mode]
           /\ cfgSubs' = IF c.listens THEN cfgSubs \cup {x} ELSE cfgSubs
           /\ disposables' = [disposables EXCEPT ![x] =
                                 IF c.listens THEN {"onDidChangeConfiguration"} ELSE {}]
    /\ wev' = [NoWev EXCEPT !.op = "constructController", !.x = x]
    /\ UNCHANGED <<regAll, config, regId, selSubs, altCache, openCache, dblSel,
                   disposed, inp, out, nav, opts>>

\* dispose() that releases its resources and keeps them on this.disposables
RunDispose_KeepsList(x) ==
    /\ LET r == IF "register" \in disposables[x]
                THEN HandleResult(lists, regs, focusSubs, lastFocusedWidget, regId[x])
                ELSE [lists |-> lists, subs |-> focusSubs, last |-> lastFocusedWidget]
       IN  /\ lists' = r.lists
           /\ focusSubs' = r.subs
           /\ lastFocusedWidget' = r.last
    /\ invoked' = IF "register" \in disposables[x] THEN invoked \cup {regId[x]} ELSE invoked
    /\ selSubs' = IF "onSelectionChange" \in disposables[x] THEN selSubs \ {x} ELSE selSubs
    /\ cfgSubs' = IF "onDidChangeConfiguration" \in disposables[x] THEN cfgSubs \ {x} ELSE cfgSubs
    /\ disposables' = disposables

\* this.disposables = dispose(this.disposables): every held resource is
\* released and the field becomes the empty array
RunDispose(x) ==
    /\ LET r == IF "register" \in disposables[x]
                THEN HandleResult(lists, regs, focusSubs, lastFocusedWidget, regId[x])
                ELSE [lists |-> lists, subs |-> focusSubs, last |-> lastFocusedWidget]
       IN  /\ lists' = r.lists
           /\ focusSubs' = r.subs
           /\ lastFocusedWidget' = r.last
    /\ invoked' = IF "register" \in disposables[x] THEN invoked \cup {regId[x]} ELSE invoked
    /\ selSubs' = IF "onSelectionChange" \in disposables[x] THEN selSubs \ {x} ELSE selSubs
    /\ cfgSubs' = IF "onDidChangeConfiguration" \in disposables[x] THEN cfgSubs \ {x} ELSE cfgSubs
    /\ disposables' = [disposables EXCEPT ![x] = {}]

\* what dispose() leaves alone, and the record of the call
DisposeFrame(x) ==
    /\ disposed' = [disposed EXCEPT ![x] = TRUE]
    /\ wev' = [NoWev EXCEPT !.op = "dispose", !.x = x]
    /\ UNCHANGED <<regs, ev, config, kind, regId, altCache, openCache, dblSel,
                   ctlMode, supplied, inp, out, nav, opts>>

\* WorkbenchList.dispose(), inherited from List
DisposeList(x) == kind[x] = "List" /\ RunDispose(x) /\ DisposeFrame(x)

\* WorkbenchPagedList.dispose()
DisposePagedList(x) == kind[x] = "PagedList" /\ RunDispose(x) /\ DisposeFrame(x)

\* WorkbenchTree.dispose()
DisposeTree(x) == kind[x] = "Tree" /\ RunDispose(x) /\ DisposeFrame(x)

\* WorkbenchTreeController.dispose()
DisposeTreeController(x) == kind[x] = "TreeController" /\ RunDispose(x) /\ DisposeFrame(x)

\* WorkbenchList / WorkbenchPagedList onDidChangeConfiguration listener
ListOnConfig(alt, cfg, affected) ==
    IF "workbench.list.multiSelectModifier" \in affected
    THEN useAltAsMultipleSelectionModifier(cfg)
    ELSE alt

\* a tree listener that refreshes both cached fields when either key is affected
TreeOnConfig_RefreshesBoth(open, alt, cfg, affected) ==
    IF affected # {}
    THEN [open |-> useSingleClickToOpen(cfg), alt |-> useAltAsMultipleSelectionModifier(cfg)]
    ELSE [open |-> open, alt |-> alt]

\* WorkbenchTree onDidChangeConfiguration listener
TreeOnConfig(open, alt, cfg, affected) ==
    [open |-> IF "workbench.list.openMode" \in affected
              THEN useSingleClickToOpen(cfg) ELSE open,
     alt  |-> IF "workbench.list.multiSelectModifier" \in affected
              THEN useAltAsMultipleSelectionModifier(cfg) ELSE alt]

\* WorkbenchTreeController onDidChangeConfiguration listener
ControllerOnConfig(mode, cfg, affected) ==
    IF "workbench.list.openMode" \in affected THEN getOpenModeSetting(cfg) ELSE mode

\* the configuration service stores newCfg and notifies its listeners;
\* affected = the setting keys for which e.affectsConfiguration(key) is true
ConfigChange(newCfg, affected) ==
    /\ config' = newCfg
    /\ altCache' = [x \in Wrappers |->
          IF x \notin cfgSubs THEN altCache[x]
          ELSE IF kind[x] \in {"List", "PagedList"}
               THEN ListOnConfig(altCache[x], newCfg, affected)
          ELSE IF kind[x] = "Tree"
               THEN TreeOnConfig(openCache[x], altCache[x], newCfg, affected).alt
          ELSE altCache[x]]
    /\ openCache' = [x \in Wrappers |->
          IF x \in cfgSubs /\ kind[x] = "Tree"
          THEN TreeOnConfig(openCache[x], altCache[x], newCfg, affected).open
          ELSE openCache[x]]
    /\ ctlMode' = [x \in Wrappers |->
          IF x \in cfgSubs /\ kind[x] = "TreeController"
          THEN ControllerOnConfig(ctlMode[x], newCfg, affected)
          ELSE ctlMode[x]]
    /\ wev' = [NoWev EXCEPT !.op = "config", !.affected = affected]
    /\ UNCHANGED <<regAll, kind, disposables, regId, cfgSubs, selSubs, dblSel,
                   supplied, disposed, inp, out, nav, opts>>

\* the selection listener: listDoubleSelection.set(getSelection().length === 2)
OnSelectionChange(n) == n = 2

\* widget x fires its selection-change event while getSelection() holds n elements
SelectionChange(x, n) ==
    /\ kind[x] \in WidgetKinds
    /\ dblSel' = [dblSel EXCEPT ![x] = IF x \in selSubs THEN OnSelectionChange(n) ELSE @]
    /\ wev' = [NoWev EXCEPT !.op = "selection", !.x = x, !.n = n]
    /\ UNCHANGED <<regAll, config, kind, disposables, regId, cfgSubs, selSubs,
                   altCache, openCache, ctlMode, supplied, disposed, inp, out, nav, opts>>

\* widget x gains DOM focus and fires onDidFocus
WidgetFocusGained(x) ==
    /\ kind[x] \in WidgetKinds
    /\ lastFocusedWidget' = FocusResult(regs, focusSubs, lastFocusedWidget, x)
    /\ wev' = [NoWev EXCEPT !.op = "focus", !.x = x]
    /\ UNCHANGED <<regs, lists, focusSubs, invoked, ev, config, wrapVars, inp, out, nav, opts>>

\* ---------------------------------------------------------- controllers

\* the events handed to the controllers: isMouse = event instanceof MouseEvent,
\* detail = event.detail, altKey = event.browserEvent.altKey, tkSingle / tkRange =
\* what the list widget's own isSelectionSingleChangeEvent / isSelectionRangeChangeEvent
\* return for the event
Events == [isMouse : BOOLEAN, detail : 0..MaxDetail, altKey : BOOLEAN,
           tkSingle : BOOLEAN, tkRange : BOOLEAN]

\* shouldOpen without the instanceof MouseEvent test
shouldOpen_NoMouseTest(cfg, event) ==
    useSingleClickToOpen(cfg) \/ event.detail = 2

\* OpenController.shouldOpen(event)
shouldOpen(cfg, event) ==
    IF event.isMouse
    THEN LET isDoubleClick == event.detail = 2
         IN  useSingleClickToOpen(cfg) \/ isDoubleClick
    ELSE TRUE

\* isSelectionSingleChangeEvent that adds the alt key to the toolkit rule
isSelectionSingleChangeEvent_Or(cfg, event) ==
    IF useAltAsMultipleSelectionModifier(cfg)
    THEN event.altKey \/ event.tkSingle
    ELSE event.tkSingle

\* MultipleSelectionController.isSelectionSingleChangeEvent(event)
isSelectionSingleChangeEvent(cfg, event) ==
    IF useAltAsMultipleSelectionModifier(cfg)
    THEN event.altKey
    ELSE event.tkSingle

\* MultipleSelectionController.isSelectionRangeChangeEvent(event)
isSelectionRangeChangeEvent(cfg, event) == event.tkRange

CallShouldOpen ==
    /\ out' = [method |-> "shouldOpen", result |-> shouldOpen(config, inp)]
    /\ UNCHANGED <<regAll, config, wrapVars, wev, inp, nav, opts>>

CallIsSelectionSingleChangeEvent ==
    /\ out' = [method |-> "isSelectionSingleChangeEvent",
               result |-> isSelectionSingleChangeEvent(config, inp)]
    /\ UNCHANGED <<regAll, config, wrapVars, wev, inp, nav, opts>>

CallIsSelectionRangeChangeEvent ==
    /\ out' = [method |-> "isSelectionRangeChangeEvent",
               result |-> isSelectionRangeChangeEvent(config, inp)]
    /\ UNCHANGED <<regAll, config, wrapVars, wev, inp, nav, opts>>

\* ------------------------------------------- ResourceResultsNavigation

Elements == 1..NumElems

\* what tree.getSelection() can hold
NavSelections ==
    {<<>>} \cup {<<a>> : a \in Elements}
           \cup {s \in {<<a, b>> : a \in Elements, b \in Elements} : s[1] # s[2]}

\* an event without payload; absent fields of a payload read as FALSE / "none"
NoPayload == [present |-> FALSE, origin |-> "none", hasEvent |-> FALSE, detail |-> 0,
              ctrlKey |-> FALSE, metaKey |-> FALSE, altKey |-> FALSE,
              fromFocus |-> FALSE, preserveFocus |-> FALSE, focusEditor |-> FALSE]

\* the payloads of tree events: origin, originalEvent (hasEvent, detail and the
\* modifier keys), fromFocus, preserveFocus, focusEditor
Payloads ==
    {NoPayload}
    \cup [present : {TRUE}, origin : {"none", "mouse", "keyboard"}, hasEvent : {FALSE},
          detail : {0}, ctrlKey : {FALSE}, metaKey : {FALSE}, altKey : {FALSE},
          fromFocus : BOOLEAN, preserveFocus : BOOLEAN, focusEditor : BOOLEAN]
    \cup [present : {TRUE}, origin : {"none", "mouse", "keyboard"}, hasEvent : {TRUE},
          detail : 0..MaxDetail, ctrlKey : BOOLEAN, metaKey : BOOLEAN, altKey : BOOLEAN,
          fromFocus : BOOLEAN, preserveFocus : BOOLEAN, focusEditor : BOOLEAN]

\* a JavaScript boolean as one of "true", "false"; "undefined" is what an
\* `a && b` chain yields when it stops at an absent operand
JsBool(b) == IF b THEN "true" ELSE "false"

\* const isMouseEvent = payload && payload.origin === 'mouse'
isMouseEvent(payload) ==
    IF ~payload.present THEN "undefined" ELSE JsBool(payload.origin = "mouse")

\* isDoubleClick taking every click of the mouse for a double-click
isDoubleClick_AnyClick(payload) ==
    IF isMouseEvent(payload) # "true" THEN isMouseEvent(payload)
    ELSE IF ~payload.hasEvent THEN "undefined"
    ELSE JsBool(payload.detail >= 1)

\* const isDoubleClick = isMouseEvent && originalEvent && originalEvent.detail === 2
isDoubleClick(payload) ==
    IF isMouseEvent(payload) # "true" THEN isMouseEvent(payload)
    ELSE IF ~payload.hasEvent THEN "undefined"
    ELSE JsBool(payload.detail = 2)

\* OpenGate without the open-mode policy: every event passes
OpenGate_Always(payload, openOnSingleClick) == TRUE

\* !isMouseEvent || this.tree.openOnSingleClick || isDoubleClick
OpenGate(payload, openOnSingleClick) ==
    \/ isMouseEvent(payload) # "true"
    \/ openOnSingleClick
    \/ isDoubleClick(payload) = "true"

\* the first element of getSelection(), undefined for an empty selection
FirstSelected(selection) == IF Len(selection) > 0 THEN selection[1] ELSE None

\* preserveFocus that forgets the keyboard origin
preserveFocus_IgnoresKeyboard(payload) ==
    ~( \/ isDoubleClick(payload) = "true"
       \/ (payload.present /\ payload.focusEditor) )

\* const preserveFocus = !((isFromKeyboard && (!payload || !payload.preserveFocus))
\*                         || isDoubleClick || (payload && payload.focusEditor))
preserveFocus(payload) ==
    LET isFromKeyboard == payload.present /\ payload.origin = "keyboard"
    IN  ~( \/ (isFromKeyboard /\ (~payload.present \/ ~payload.preserveFocus))
           \/ isDoubleClick(payload) = "true"
           \/ (payload.present /\ payload.focusEditor) )

\* the Open Intent onSelection fires, and the calls it makes in order
SelectionIntent(selection, payload) ==
    LET dbl == isDoubleClick(payload)
        sideBySide == IF ~payload.hasEvent THEN "undefined"
                      ELSE JsBool(payload.ctrlKey \/ payload.metaKey \/ payload.altKey)
    IN  [emitted |-> << [preserveFocus |-> preserveFocus(payload), pinned |-> dbl,
                         revealIfVisible |-> TRUE, sideBySide |-> sideBySide,
                         element |-> FirstSelected(selection)] >>,
         trace |-> (IF dbl = "true" /\ payload.hasEvent
                    THEN <<"preventDefault">> ELSE <<>>) \o <<"fire">>]

\* onSelection without the early return on payload.fromFocus
onSelection_NoMarkerCheck(selection, openOnSingleClick, payload) ==
    IF OpenGate(payload, openOnSingleClick)
    THEN SelectionIntent(selection, payload)
    ELSE [emitted |-> <<>>, trace |-> <<>>]

\* ResourceResultsNavigation.onSelection: the Open Intents fired and the calls
\* made, in order
onSelection(selection, openOnSingleClick, payload) ==
    IF payload.present /\ payload.fromFocus
    THEN [emitted |-> <<>>, trace |-> <<>>]
    ELSE IF OpenGate(payload, openOnSingleClick)
    THEN SelectionIntent(selection, payload)
    ELSE [emitted |-> <<>>, trace |-> <<>>]

\* setSelection called with an empty payload
FromFocusPayload_Unmarked == [NoPayload EXCEPT !.present = TRUE]

\* the payload onFocus hands to setSelection: { fromFocus: true }
FromFocusPayload == [NoPayload EXCEPT !.present = TRUE, !.fromFocus = TRUE]

\* onFocus adding the focused element to the selection the selection handler reads,
\* and leaving the tree's selection alone
onFocus_KeepsSelection(focus, selection, openOnSingleClick, payload) ==
    LET element == focus
        nested == onSelection(selection, openOnSingleClick, FromFocusPayload)
        fires == OpenGate(payload, openOnSingleClick)
    IN  [selection |-> selection,
         nested |-> FromFocusPayload,
         emitted |-> nested.emitted \o
                     (IF fires
                      THEN << [preserveFocus |-> TRUE, pinned |-> "false",
                               revealIfVisible |-> TRUE, sideBySide |-> "false",
                               element |-> element] >>
                      ELSE <<>>),
         trace |-> <<"setSelection", "onSelection">> \o nested.trace \o
                   (IF fires THEN <<"fire">> ELSE <<>>)]

\* ResourceResultsNavigation.onFocus: the selection it sets, the payload it sets
\* it with, the Open Intents fired and the calls made, in order; setSelection
\* raises the tree's selection-change event with that payload, and onSelection
\* handles it before setSelection returns
onFocus(focus, selection, openOnSingleClick, payload) ==
    LET element == focus
        nested == onSelection(<<element>>, openOnSingleClick, FromFocusPayload)
        fires == OpenGate(payload, openOnSingleClick)
    IN  [selection |-> <<element>>,
         nested |-> FromFocusPayload,
         emitted |-> nested.emitted \o
                     (IF fires
                      THEN << [preserveFocus |-> TRUE, pinned |-> "false",
                               revealIfVisible |-> TRUE, sideBySide |-> "false",
                               element |-> element] >>
                      ELSE <<>>),
         trace |-> <<"setSelection", "onSelection">> \o nested.trace \o
                   (IF fires THEN <<"fire">> ELSE <<>>)]

NoNav == [openOnFocus |-> "absent", openOnSingleClick |-> TRUE, focus |-> None,
          selection |-> <<>>, event |-> "none", payload |-> NoPayload,
          prevSelection |-> <<>>, nested |-> NoPayload, emitted |-> <<>>, trace |-> <<>>]

\* this.options && this.options.openOnFocus, of registerListeners: onFocus is
\* subscribed only with options.openOnFocus set
FocusSubscribed(openOnFocus) == openOnFocus = "true"

\* the tree moves its focus to f and fires onDidChangeFocus with payload
NavFocusChange(f, payload) ==
    /\ nav.event = "none"
    /\ LET r == IF FocusSubscribed(nav.openOnFocus)
                THEN onFocus(f, nav.selection, nav.openOnSingleClick, payload)
                ELSE [selection |-> nav.selection, nested |-> NoPayload,
                      emitted |-> <<>>, trace |-> <<>>]
       IN  nav' = [nav EXCEPT !.focus = f, !.selection = r.selection,
                              !.event = "focus", !.payload = payload,
                              !.prevSelection = nav.selection, !.nested = r.nested,
                              !.emitted = r.emitted, !.trace = r.trace]
    /\ UNCHANGED <<regAll, config, wrapVars, wev, inp, out, opts>>

\* the tree, holding the selection it has just been given, fires
\* onDidChangeSelection with payload
NavSelectionChange(payload) ==
    /\ nav.event = "none"
    /\ LET r == onSelection(nav.selection, nav.openOnSingleClick, payload)
       IN  nav' = [nav EXCEPT !.event = "selection", !.payload = payload,
                              !.prevSelection = nav.selection,
                              !.emitted = r.emitted, !.trace = r.trace]
    /\ UNCHANGED <<regAll, config, wrapVars, wev, inp, out, opts>>

\* a configuration change affecting workbench.list.openMode reaches the tree
NavTreeConfigChange(cfg) ==
    /\ nav.event = "none"
    /\ nav' = [nav EXCEPT !.openOnSingleClick =
                  TreeOnConfig(@, FALSE, cfg, {"workbench.list.openMode"}).open]
    /\ UNCHANGED <<regAll, config, wrapVars, wev, inp, out, opts>>

\* ------------------------------------------ wrapper constructor options

\* an options argument: not an object (undefined), or an object whose fields are
\* "absent" or set
NoOptions == [isObject |-> "no", keyboardSupport |-> "absent",
              multipleSelectionSupport |-> "absent",
              multipleSelectionController |-> "absent", openController |-> "absent"]

OptionObjects ==
    [isObject : {"yes"}, keyboardSupport : {"absent", "false", "true"},
     multipleSelectionSupport : {"absent", "false", "true"},
     multipleSelectionController : {"absent", "caller"},
     openController : {"absent", "caller"}]

\* the literal { keyboardSupport: false }
KeyboardSupportOff == [NoOptions EXCEPT !.isObject = "yes", !.keyboardSupport = "false"]

\* mixin(destination, source, overwrite) of vs/base/common/objects: returns
\* source when destination is not an object; otherwise copies each key of source
\* into destination, and a key destination already has only when overwrite
mixin(destination, source, overwrite) ==
    IF destination.isObject = "no" THEN source
    ELSE [k \in DOMAIN destination |->
            IF k = "isObject" THEN "yes"
            ELSE IF source[k] = "absent" THEN destination[k]
            ELSE IF destination[k] # "absent"
                 THEN (IF overwrite THEN source[k] ELSE destination[k])
                 ELSE source[k]]

\* handleListControllers: a MultipleSelectionController is supplied when
\* multipleSelectionSupport === true and none was given; the OpenController is
\* always replaced
handleListControllers(options) ==
    [options EXCEPT
        !.multipleSelectionController =
            IF options.multipleSelectionSupport = "true" /\ @ = "absent"
            THEN "workbench" ELSE @,
        !.openController = "workbench"]

\* the options each wrapper constructor hands to super()
SuperOptions(k, options) ==
    IF k = "Tree"
    THEN mixin(options, KeyboardSupportOff, FALSE)
    ELSE mixin(handleListControllers(options), KeyboardSupportOff, FALSE)

NoOpts == [kind |-> "none", threw |-> FALSE, supplied |-> NoOptions, passed |-> NoOptions]

\* new WorkbenchList / WorkbenchPagedList / WorkbenchTree (..., options, ...):
\* handleListControllers reads a property of options and throws on undefined
ConstructWithOptions(k, options) ==
    /\ opts.kind = "none"
    /\ opts' = IF k # "Tree" /\ options.isObject = "no"
               THEN [kind |-> k, threw |-> TRUE, supplied |-> options, passed |-> NoOptions]
               ELSE [kind |-> k, threw |-> FALSE, supplied |-> options,
                     passed |-> SuperOptions(k, options)]
    /\ UNCHANGED <<regAll, config, wrapVars, wev, inp, out, nav>>

NoInp == [isMouse |-> FALSE, detail |-> 0, altKey |-> FALSE,
          tkSingle |-> FALSE, tkRange |-> FALSE]
NoOut == [method |-> "none", result |-> FALSE]

InitIdle ==
    /\ config = [openMode |-> "singleClick", multiSelectModifier |-> "ctrlCmd"]
    /\ kind = [x \in Wrappers |-> "none"]
    /\ disposables = [x \in Wrappers |-> {}]
    /\ regId = [x \in Wrappers |-> 0]
    /\ cfgSubs = {}
    /\ selSubs = {}
    /\ altCache = [x \in Wrappers |-> FALSE]
    /\ openCache = [x \in Wrappers |-> FALSE]
    /\ dblSel = [x \in Wrappers |-> FALSE]
    /\ ctlMode = [x \in Wrappers |-> "unset"]
    /\ supplied = [x \in Wrappers |-> "undefined"]
    /\ disposed = [x \in Wrappers |-> FALSE]
    /\ wev = NoWev
    /\ inp = NoInp
    /\ out = NoOut

Init ==
    /\ regs = <<>>
    /\ lists = <<>>
    /\ focusSubs = {}
    /\ lastFocusedWidget = None
    /\ invoked = {}
    /\ ev = NoEv
    /\ InitIdle
    /\ nav = NoNav
    /\ opts = NoOpts

Next ==
    \/ \E w \in Widgets, f \in BOOLEAN : Register(w, f)
    \/ \E id \in 1..MaxRegs : DisposeHandle(id)
    \/ \E w \in Widgets : FocusGained(w)

Spec == Init /\ [][Next]_vars

\* the wrappers, the registry they register with and the configuration service
NextWrap ==
    \/ \E x \in Wrappers, f \in BOOLEAN : ConstructList(x, f)
    \/ \E x \in Wrappers, f \in BOOLEAN : ConstructPagedList(x, f)
    \/ \E x \in Wrappers, f \in BOOLEAN : ConstructTree(x, f)
    \/ \E x \in Wrappers, m \in {"undefined", "SINGLE_CLICK", "DOUBLE_CLICK"} :
            ConstructTreeController(x, m)
    \/ \E x \in Wrappers : DisposeList(x)
    \/ \E x \in Wrappers : DisposePagedList(x)
    \/ \E x \in Wrappers : DisposeTree(x)
    \/ \E x \in Wrappers : DisposeTreeController(x)
    \/ \E c \in Configs, a \in SUBSET SettingKeys : ConfigChange(c, a)
    \/ \E x \in Wrappers, n \in 0..MaxSel : SelectionChange(x, n)
    \/ \E x \in Wrappers : WidgetFocusGained(x)

SpecWrap == Init /\ [][NextWrap]_vars

\* WorkbenchTree objects under configuration changes
NextTree ==
    \/ \E x \in Wrappers, f \in BOOLEAN : ConstructTree(x, f)
    \/ \E x \in Wrappers : DisposeTree(x)
    \/ \E c \in Configs, a \in SUBSET SettingKeys : ConfigChange(c, a)

SpecTree == Init /\ [][NextTree]_vars

\* WorkbenchTreeController objects under configuration changes
NextTreeCtl ==
    \/ \E x \in Wrappers, m \in {"undefined", "SINGLE_CLICK", "DOUBLE_CLICK"} :
            ConstructTreeController(x, m)
    \/ \E x \in Wrappers : DisposeTreeController(x)
    \/ \E c \in Configs, a \in SUBSET SettingKeys : ConfigChange(c, a)

SpecTreeCtl == Init /\ [][NextTreeCtl]_vars

\* the controllers' methods applied to every event under every configuration
InitCtl ==
    /\ regs = <<>>
    /\ lists = <<>>
    /\ focusSubs = {}
    /\ lastFocusedWidget = None
    /\ invoked = {}
    /\ ev = NoEv
    /\ config \in Configs
    /\ kind = [x \in Wrappers |-> "none"]
    /\ disposables = [x \in Wrappers |-> {}]
    /\ regId = [x \in Wrappers |-> 0]
    /\ cfgSubs = {}
    /\ selSubs = {}
    /\ altCache = [x \in Wrappers |-> FALSE]
    /\ openCache = [x \in Wrappers |-> FALSE]
    /\ dblSel = [x \in Wrappers |-> FALSE]
    /\ ctlMode = [x \in Wrappers |-> "unset"]
    /\ supplied = [x \in Wrappers |-> "undefined"]
    /\ disposed = [x \in Wrappers |-> FALSE]
    /\ wev = NoWev
    /\ inp \in Events
    /\ out = NoOut
    /\ nav = NoNav
    /\ opts = NoOpts

NextCtl ==
    \/ CallShouldOpen
    \/ CallIsSelectionSingleChangeEvent
    \/ CallIsSelectionRangeChangeEvent

SpecCtl == InitCtl /\ [][NextCtl]_vars

\* one tree event handled by a ResourceResultsNavigation, for every tree state,
\* every options object and every payload
InitNav ==
    /\ regs = <<>>
    /\ lists = <<>>
    /\ focusSubs = {}
    /\ lastFocusedWidget = None
    /\ invoked = {}
    /\ ev = NoEv
    /\ InitIdle
    /\ nav \in [openOnFocus : {"absent", "false", "true"}, openOnSingleClick : BOOLEAN,
                focus : {None}, selection : NavSelections, event : {"none"},
                payload : {NoPayload}, prevSelection : {<<>>}, nested : {NoPayload},
                emitted : {<<>>}, trace : {<<>>}]
    /\ opts = NoOpts

NextNav ==
    \/ \E f \in Elements \cup {None}, p \in Payloads : NavFocusChange(f, p)
    \/ \E p \in Payloads : NavSelectionChange(p)
    \/ \E c \in Configs : NavTreeConfigChange(c)

SpecNav == InitNav /\ [][NextNav]_vars

\* one wrapper constructed with every options argument a caller can supply
InitOpts ==
    /\ regs = <<>>
    /\ lists = <<>>
    /\ focusSubs = {}
    /\ lastFocusedWidget = None
    /\ invoked = {}
    /\ ev = NoEv
    /\ InitIdle
    /\ nav = NoNav
    /\ opts = NoOpts

NextOpts ==
    \E k \in WidgetKinds, o \in OptionObjects \cup {NoOptions} : ConstructWithOptions(k, o)

SpecOpts == InitOpts /\ [][NextOpts]_vars

\* ------------------------------------------------ claims on the ListService

\* C1: under every sequence of register calls and disposal-handle invocations
\* the registry never holds two entries for the same widget, and register(w)
\* throws whenever w has a registration whose handle was not yet invoked.
C1_NoDuplicateAndRejects ==
    /\ \A i, j \in 1..Len(lists) : i # j => regs[lists[i]] # regs[lists[j]]
    /\ (ev.op = "register" /\ ev.live) => ev.threw

\* C2: lastFocusedList is undefined or a widget that currently has an entry
\* in the registry.
C2_LastFocusedIsListed ==
    lastFocusedWidget = None \/ IsListed(lists, regs, lastFocusedWidget)

\* C3: invoking the handle of a registration removes that registration's entry,
\* unsubscribes its focus listener and leaves lastFocusedList as it was, also
\* when lastFocusedList is the handle's widget.
C3_HandleFrame ==
    ev.op = "dispose" =>
        /\ \A i \in 1..Len(lists) : lists[i] # ev.id
        /\ ev.id \notin focusSubs
        /\ lastFocusedWidget = ev.prevLast

C3_Witness ==
    /\ ev.op = "dispose"
    /\ \E i \in 1..Len(ev.prevLists) : ev.prevLists[i] = ev.id
    /\ ev.prevLast = ev.w
    /\ lastFocusedWidget = ev.w
    /\ ~IsListed(lists, regs, ev.w)

\* C4: a successful register(w) sets lastFocusedList to w when w is DOM-focused
\* at that moment, and leaves lastFocusedList unchanged when it is not.
C4_RegisterFocus ==
    (ev.op = "register" /\ ~ev.threw) =>
        lastFocusedWidget = (IF ev.focused THEN ev.w ELSE ev.prevLast)

C4_Witness ==
    /\ ev.op = "register" /\ ~ev.threw /\ ev.focused
    /\ ev.prevLast # ev.w
    /\ lastFocusedWidget = ev.w

\* C5: a focus-gained event of a widget that has an entry in the registry sets
\* lastFocusedList to that widget, whatever the previous value was.
C5_FocusLastWriterWins ==
    (ev.op = "focus" /\ ev.listed) => lastFocusedWidget = ev.w

C5_Witness ==
    /\ ev.op = "focus" /\ ev.listed
    /\ ev.prevLast # None /\ ev.prevLast # ev.w
    /\ lastFocusedWidget = ev.w

\* C19: invoking a registration's handle, any number of times, removes only
\* that registration's entry: every other entry that was in the registry before
\* the call is still there after it, in the same order.
C19_HandleRemovesOnlyOwnEntry ==
    ev.op = "dispose" =>
        lists = SelectSeq(ev.prevLists, LAMBDA e : e # ev.id)

\* C20: a register(w) call that throws leaves the entry list, lastFocusedList
\* and the focus subscriptions as they were, also when w is DOM-focused.
C20_FailedRegisterFrame ==
    [][ (ev'.op = "register" /\ ev'.threw) =>
            UNCHANGED <<regs, lists, focusSubs, lastFocusedWidget>> ]_vars

C20_Witness ==
    /\ ev.op = "register" /\ ev.threw /\ ev.focused
    /\ lastFocusedWidget # ev.w
    /\ lists = ev.prevLists
    /\ IsListed(lists, regs, ev.w)

\* ---------------------------------------------------- claims on the wrappers

\* C6: a second dispose() of a wrapper changes nothing of the program state,
\* and once a wrapper is disposed no configuration-change, selection-change or
\* focus-gained event changes its cached policy fields, its double-selection
\* flag, its controller open mode, or (for its own focus event) the registry's
\* last focused widget.
C6_DisposeIdempotentAndQuiet ==
    [][ /\ (wev'.op = "dispose" /\ disposed[wev'.x]) =>
              UNCHANGED <<regs, lists, focusSubs, lastFocusedWidget, config, kind,
                          disposables, regId, cfgSubs, selSubs, altCache, openCache,
                          dblSel, ctlMode>>
        /\ \A x \in Wrappers :
              (disposed[x] /\ wev'.op \in {"config", "selection", "focus"}) =>
                  /\ altCache'[x] = altCache[x]
                  /\ openCache'[x] = openCache[x]
                  /\ dblSel'[x] = dblSel[x]
                  /\ ctlMode'[x] = ctlMode[x]
                  /\ (wev'.op = "focus" /\ wev'.x = x) =>
                         lastFocusedWidget' = lastFocusedWidget
      ]_vars

C6_Witness ==
    /\ wev.op = "config"
    /\ wev.affected = SettingKeys
    /\ \E x, y \in Wrappers :
          /\ kind[x] = "Tree" /\ disposed[x]
          /\ openCache[x] # useSingleClickToOpen(config)
          /\ altCache[x] # useAltAsMultipleSelectionModifier(config)
          /\ Live(y) /\ IsListed(lists, regs, y)

\* C7: for a live WorkbenchTree a notification affecting neither setting key
\* leaves both cached fields unchanged, and one affecting only
\* workbench.list.openMode recomputes openOnSingleClick from the stored
\* configuration and leaves useAltAsMultipleSelectionModifier unchanged.
C7_TreeConfigFrame ==
    [][ wev'.op = "config" =>
          \A x \in Wrappers : (kind[x] = "Tree" /\ ~disposed[x]) =>
              /\ wev'.affected = {} =>
                    (openCache'[x] = openCache[x] /\ altCache'[x] = altCache[x])
              /\ wev'.affected = {"workbench.list.openMode"} =>
                    /\ openCache'[x] = (config'.openMode # "doubleClick")
                    /\ altCache'[x] = altCache[x]
      ]_vars

C7_Witness ==
    /\ wev.op = "config"
    /\ wev.affected = {"workbench.list.openMode"}
    /\ \E x \in Wrappers :
          /\ kind[x] = "Tree" /\ ~disposed[x]
          /\ altCache[x] # (config.multiSelectModifier = "alt")
          /\ ~openCache[x]
          /\ config.openMode = "doubleClick"

\* C8: a controller constructed with an explicit open mode keeps it under every
\* sequence of configuration changes; one constructed without gets its open
\* mode from the stored workbench.list.openMode at construction and again after
\* every notification affecting that key while it is not disposed.
C8_ControllerOpenMode ==
    LET fromSetting == IF config.openMode = "doubleClick"
                       THEN "DOUBLE_CLICK" ELSE "SINGLE_CLICK"
    IN  /\ \A x \in Wrappers :
              (kind[x] = "TreeController" /\ supplied[x] # "undefined") =>
                  ctlMode[x] = supplied[x]
        /\ (wev.op = "constructController" /\ supplied[wev.x] = "undefined") =>
              ctlMode[wev.x] = fromSetting
        /\ (wev.op = "config" /\ "workbench.list.openMode" \in wev.affected) =>
              \A x \in Wrappers :
                  (kind[x] = "TreeController" /\ supplied[x] = "undefined"
                      /\ ~disposed[x]) => ctlMode[x] = fromSetting

C8_Witness ==
    /\ wev.op = "config"
    /\ "workbench.list.openMode" \in wev.affected
    /\ config.openMode = "doubleClick"
    /\ \E x, y \in Wrappers :
          /\ kind[x] = "TreeController" /\ supplied[x] = "undefined"
          /\ ~disposed[x] /\ ctlMode[x] = "DOUBLE_CLICK"
          /\ kind[y] = "TreeController" /\ supplied[y] = "SINGLE_CLICK"
          /\ ctlMode[y] = "SINGLE_CLICK"

\* ------------------------------------------------- claims on the controllers

\* C9: shouldOpen returns true for every non-mouse event, and for a mouse event
\* exactly when workbench.list.openMode is not doubleClick or the click count is 2.
C9_ShouldOpen ==
    out.method = "shouldOpen" =>
        out.result = (~inp.isMouse \/ config.openMode # "doubleClick" \/ inp.detail = 2)

C9_Witness ==
    /\ out.method = "shouldOpen"
    /\ inp.isMouse /\ inp.detail = 1
    /\ config.openMode = "doubleClick"
    /\ ~out.result

\* C10: with multiSelectModifier = alt, isSelectionSingleChangeEvent returns the
\* event's alt key whatever the toolkit rule returns; otherwise it returns the
\* toolkit rule's result; isSelectionRangeChangeEvent always returns the toolkit
\* rule's result.
C10_MultipleSelection ==
    /\ out.method = "isSelectionSingleChangeEvent" =>
          out.result = (IF config.multiSelectModifier = "alt"
                        THEN inp.altKey ELSE inp.tkSingle)
    /\ out.method = "isSelectionRangeChangeEvent" => out.result = inp.tkRange

C10_Witness ==
    /\ out.method = "isSelectionSingleChangeEvent"
    /\ config.multiSelectModifier = "alt"
    /\ ~inp.altKey /\ inp.tkSingle
    /\ ~out.result

\* C15: after every selection-change event of a live wrapper of any variant,
\* its listDoubleSelection flag is true exactly when the selection has size 2.
C15_DoubleSelectionFlag ==
    (wev.op = "selection" /\ Live(wev.x)) => (dblSel[wev.x] <=> (wev.n = 2))

\* C16: every wrapper hands its underlying widget options with keyboardSupport
\* = false, whatever options object the caller supplied.
C16_KeyboardSupportOff ==
    (opts.kind \in WidgetKinds /\ ~opts.threw) => opts.passed.keyboardSupport = "false"

\* ------------------------------------- claims on ResourceResultsNavigation

\* C11: a selection-change event whose payload carries fromFocus makes the
\* navigation emit no Open Intent and call no preventDefault, whatever the other
\* payload fields and whatever the tree's openOnSingleClick.
C11_FromFocusIgnored ==
    (nav.event = "selection" /\ nav.payload.present /\ nav.payload.fromFocus) =>
        /\ nav.emitted = <<>>
        /\ nav.trace = <<>>

C11_Witness ==
    /\ nav.event = "selection"
    /\ nav.payload.fromFocus
    /\ nav.payload.origin = "mouse" /\ nav.payload.hasEvent /\ nav.payload.detail = 2
    /\ nav.payload.focusEditor /\ nav.payload.ctrlKey
    /\ nav.openOnSingleClick
    /\ nav.emitted = <<>>

\* C12: with openOnFocus set, a focus-change event first sets the selection to
\* exactly <<focused element>> with the fromFocus marker and then, when the event
\* is not mouse-origin or openOnSingleClick is true or the click count is 2, emits
\* an Open Intent with preserveFocus = true, pinned = false, revealIfVisible =
\* true, sideBySide = false and element = the focused element.
C12_FocusSelectsThenOpens ==
    (nav.event = "focus" /\ nav.openOnFocus = "true") =>
        LET p == nav.payload
            passes == \/ ~(p.present /\ p.origin = "mouse")
                      \/ nav.openOnSingleClick
                      \/ (p.hasEvent /\ p.detail = 2)
        IN  /\ nav.selection = <<nav.focus>>
            /\ nav.nested.present /\ nav.nested.fromFocus
            /\ Len(nav.trace) >= 1 /\ nav.trace[1] = "setSelection"
            /\ passes =>
                 /\ nav.emitted = << [preserveFocus |-> TRUE, pinned |-> "false",
                                      revealIfVisible |-> TRUE, sideBySide |-> "false",
                                      element |-> nav.focus] >>
                 /\ nav.trace[Len(nav.trace)] = "fire"
                 /\ Len(nav.trace) > 1

C12_Witness ==
    /\ nav.event = "focus" /\ nav.openOnFocus = "true"
    /\ nav.payload.origin = "mouse" /\ nav.payload.hasEvent /\ nav.payload.detail = 1
    /\ nav.openOnSingleClick
    /\ nav.focus = 2 /\ nav.prevSelection = <<1, 2>> /\ nav.selection = <<2>>
    /\ Len(nav.emitted) = 1 /\ nav.emitted[1].element = 2

\* C13: an unmarked selection-change event of mouse origin with click count 2
\* emits, whatever openOnSingleClick is, one Open Intent with pinned = true,
\* sideBySide true exactly when ctrl, meta or alt is held, element = the first
\* selected element, and calls preventDefault before firing; an emitting event
\* that is not a double-click has pinned not true and calls no preventDefault.
C13_DoubleClickPins ==
    (nav.event = "selection" /\ ~nav.payload.fromFocus) =>
        LET p == nav.payload
            double == p.present /\ p.origin = "mouse" /\ p.hasEvent /\ p.detail = 2
        IN  /\ double =>
                /\ Len(nav.emitted) = 1
                /\ nav.emitted[1].pinned = "true"
                /\ (nav.emitted[1].sideBySide = "true") <=> (p.ctrlKey \/ p.metaKey \/ p.altKey)
                /\ nav.emitted[1].element =
                       (IF nav.selection = <<>> THEN None ELSE Head(nav.selection))
                /\ nav.trace = <<"preventDefault", "fire">>
            /\ (~double /\ nav.emitted # <<>>) =>
                /\ nav.emitted[1].pinned # "true"
                /\ nav.trace = <<"fire">>

C13_Witness ==
    /\ nav.event = "selection" /\ ~nav.payload.fromFocus
    /\ nav.payload.origin = "mouse" /\ nav.payload.hasEvent /\ nav.payload.detail = 2
    /\ nav.payload.ctrlKey /\ ~nav.payload.metaKey /\ ~nav.payload.altKey
    /\ ~nav.openOnSingleClick
    /\ nav.selection = <<2, 1>>
    /\ Len(nav.emitted) = 1
    /\ nav.emitted[1].pinned = "true" /\ nav.emitted[1].sideBySide = "true"
    /\ nav.emitted[1].element = 2

\* C14: every Open Intent emitted from a selection-change event has preserveFocus
\* false exactly when (origin is keyboard and payload.preserveFocus is not set) or
\* the event is a mouse double-click or payload.focusEditor is set.
C14_PreserveFocus ==
    (nav.event = "selection" /\ nav.emitted # <<>>) =>
        LET p == nav.payload
        IN  (nav.emitted[1].preserveFocus = FALSE) <=>
                \/ (p.present /\ p.origin = "keyboard" /\ ~p.preserveFocus)
                \/ (p.present /\ p.origin = "mouse" /\ p.hasEvent /\ p.detail = 2)
                \/ (p.present /\ p.focusEditor)

C14_Witness ==
    /\ nav.event = "selection"
    /\ nav.payload.present /\ nav.payload.origin = "keyboard" /\ ~nav.payload.hasEvent
    /\ ~nav.payload.preserveFocus /\ ~nav.payload.focusEditor
    /\ Len(nav.emitted) = 1
    /\ nav.emitted[1].preserveFocus = FALSE

\* C17: with openOnFocus set, one focus-change event emits at most one Open
\* Intent: the selection-change raised by the handler's setSelection carries
\* fromFocus and emits nothing, and the handler's own emission comes after that
\* nested selection-change was handled.
C17_AtMostOneOpenPerFocus ==
    (nav.event = "focus" /\ nav.openOnFocus = "true") =>
        /\ Len(nav.emitted) <= 1
        /\ nav.nested.fromFocus
        /\ \/ nav.trace = <<"setSelection", "onSelection">> /\ nav.emitted = <<>>
           \/ nav.trace = <<"setSelection", "onSelection", "fire">> /\ Len(nav.emitted) = 1

C17_Witness ==
    /\ nav.event = "focus" /\ nav.openOnFocus = "true"
    /\ nav.payload.present /\ nav.payload.origin = "keyboard"
    /\ nav.trace = <<"setSelection", "onSelection", "fire">>
    /\ Len(nav.emitted) = 1

\* C18: a focus-change event (handler subscribed) or an unmarked selection-change
\* event emits an Open Intent iff it is not mouse-origin, or openOnSingleClick is
\* true at that moment, or it is a mouse event with click count 2; with
\* openOnFocus absent or false a focus-change event emits nothing and leaves the
\* selection alone.
C18_OpenGate ==
    LET p == nav.payload
        passes == \/ ~(p.present /\ p.origin = "mouse")
                  \/ nav.openOnSingleClick
                  \/ (p.present /\ p.origin = "mouse" /\ p.hasEvent /\ p.detail = 2)
    IN  /\ (nav.event = "selection" /\ ~nav.payload.fromFocus) =>
                (nav.emitted # <<>> <=> passes)
        /\ (nav.event = "focus" /\ nav.openOnFocus = "true") =>
                (nav.emitted # <<>> <=> passes)
        /\ (nav.event = "focus" /\ nav.openOnFocus # "true") =>
                /\ nav.emitted = <<>>
                /\ nav.selection = nav.prevSelection

C18_Witness ==
    /\ nav.event = "selection" /\ ~nav.payload.fromFocus
    /\ nav.payload.origin = "mouse" /\ nav.payload.hasEvent /\ nav.payload.detail = 1
    /\ ~nav.openOnSingleClick
    /\ nav.selection # <<>>
    /\ nav.emitted = <<>>

====
